---- MODULE Spec2Model ----
(***************************************************************************)
(* Backend process supervisor of src-tauri/src/main.rs (release and debug  *)
(* builds): the shared BackendServer state, the Tauri commands             *)
(* start_backend_server / stop_backend_server / check_backend_health, the  *)
(* setup task of main(), the CloseRequested window handler and the         *)
(* backend_watchdog loop, interleaved at their shared-memory accesses,     *)
(* system calls and suspension points.                                     *)
(***************************************************************************)
EXTENDS Naturals, Integers, Sequences, FiniteSets, TLC

\* ---------------------------------------------------------------- bounds
\* Processes the operating system lets the supervisor create in one run;
\* once used up, every further spawn_embedded_backend returns Err.
MaxSpawns == 2
\* Commands the frontend invokes in one run.
MaxUiCalls == 1
\* The largest max_attempts wait_for_health is run with on its own.
MaxAttempts == 4

\* ------------------------------------------------------ program constants
MAX_FAILURES_BEFORE_RESTART == 3
MAX_RESTARTS == 3
\* wait_for_health(30, 500): the number of attempts
HEALTH_ATTEMPTS == 30

\* ------------------------------------------------------------------ values
None == 0
Pids == 1..MaxSpawns

\* Tasks that run start_backend_server / stop_backend_server:
\* the setup task of main(), one frontend invocation at a time, the window
\* event handler.
Callers == {"setup", "ui", "close"}

OkRunning == [ok |-> TRUE, msg |-> "Backend server already running"]
OkExternal == [ok |-> TRUE, msg |-> "Backend server already running externally"]
OkDevMode == [ok |-> TRUE, msg |-> "Development mode: start backend manually"]
OkStarted == [ok |-> TRUE, msg |-> "Backend server started successfully"]
OkStopped == [ok |-> TRUE, msg |-> "Backend server stopped successfully"]
OkNotRunning == [ok |-> TRUE, msg |-> "Backend server was not running"]
ErrSpawn == [ok |-> FALSE, msg |-> "Failed to spawn backend process"]
ErrKill == [ok |-> FALSE, msg |-> "Failed to kill backend server"]
OkHealth(b) == [ok |-> TRUE, msg |-> IF b THEN "true" ELSE "false"]
NoRet == [ok |-> TRUE, msg |-> ""]

VARIABLES
    release,              \* build without debug_assertions
    child,                \* BackendServer.child: None or the tracked process
    shutting_down,        \* BackendServer.shutting_down
    lock,                 \* holder of the child mutex, or "free"
    live,                 \* processes spawned and not yet waited for
    spawned,              \* number of processes created so far
    pc, tmp, ret,         \* per caller: position, local `child`, result
    probed,               \* per caller: the answers to its start's probes
    ui_calls,             \* commands invoked by the frontend so far
    events,               \* "backend-status" events, in emission order
    wd_pc,                \* position of backend_watchdog
    wd_old,               \* the watchdog's taken old child
    wd_new,               \* the watchdog's freshly spawned child
    consecutive_failures, \* local of backend_watchdog
    restart_count,        \* local of backend_watchdog
    closed,               \* a CloseRequested handler has returned
    late_shutdown,        \* shutting_down was set between the failure
                          \* detection of this wake and its spawn
    cyc_kills, cyc_spawns, \* kill() / spawn calls of the watchdog this wake
    fail_run,             \* failed wake probes since the last successful one
    wd_wait,              \* what this wake's wait_for_health returned
    wd_spawn_calls,       \* spawn calls of the watchdog so far
    wfh,                  \* a run of wait_for_health: its arguments, loop
                          \* variable, probes issued and result
    target_os,            \* cfg!(target_os) of the build
    fs,                   \* the files and directories that exist on disk
    del,                  \* a call of delete_data_category: id, result
    tests,                \* the unit tests of menu.rs: position, verdict
    menu                  \* the native menu: items built, last event sent

shared == <<child, shutting_down, lock, live, spawned>>
callerv == <<pc, tmp, ret, probed, ui_calls>>
\* Records of the watchdog's run kept for the properties below; the code
\* reads none of them.
wd_hist == <<late_shutdown, cyc_kills, cyc_spawns, fail_run, wd_wait,
             wd_spawn_calls>>
wdv == <<wd_pc, wd_old, wd_new, consecutive_failures, restart_count, wd_hist>>
\* The state of the supervisor, and the state of the parts that run apart
\* from it: wait_for_health on its own, cleanup.rs, the tests of menu.rs.
supervisor == <<release, shared, callerv, events, wdv, closed>>
aux == <<wfh, target_os, fs, del, tests, menu>>
vars == <<supervisor, aux>>

Event(by, status, msg) == [by |-> by, status |-> status, msg |-> msg]

SupervisorInit ==
    /\ release \in BOOLEAN
    /\ child = None
    /\ shutting_down = FALSE
    /\ lock = "free"
    /\ live = {}
    /\ spawned = 0
    /\ pc = [c \in Callers |-> IF c = "setup" THEN "sleep" ELSE "idle"]
    /\ tmp = [c \in Callers |-> None]
    /\ ret = [c \in Callers |-> NoRet]
    /\ probed = [c \in Callers |-> "none"]
    /\ ui_calls = 0
    /\ events = <<>>
    /\ wd_pc = "off"
    /\ wd_old = None
    /\ wd_new = None
    /\ consecutive_failures = 0
    /\ restart_count = 0
    /\ closed = FALSE
    /\ late_shutdown = FALSE
    /\ cyc_kills = 0
    /\ cyc_spawns = 0
    /\ fail_run = 0
    /\ wd_wait = "none"
    /\ wd_spawn_calls = 0

\* Not running: wait_for_health on its own, cleanup.rs, the menu tests.
WfhOff == wfh = [max_attempts |-> 0, answers |-> <<>>, attempt |-> 1,
                 probes |-> 0, ret |-> "off"]
CleanupOff ==
    /\ target_os = "other"
    /\ fs = {}
    /\ del = [id |-> "", pc |-> "off", ret |-> NoRet]
NoMenu == [pc |-> "off", k |-> 1, items |-> <<>>, last |-> <<>>]

MenuOff ==
    /\ tests = [seen |-> {}, i |-> 1, unique |-> "off", count |-> "off",
                j |-> 1, expected |-> "off"]
    /\ menu = NoMenu

Init == SupervisorInit /\ WfhOff /\ CleanupOff /\ MenuOff

\* ------------------------------------------------------------ environment
\* poll_health_once: Ok(response) => response.status().is_success(),
\* Err(_) => false. What the endpoint answers is the environment's choice
\* at each probe.
poll_health_once == BOOLEAN

\* spawn_embedded_backend: Err when a resource is missing or the OS refuses
\* the process; Ok creates one new process.
spawn_embedded_backend == {ok \in BOOLEAN : ok => spawned < MaxSpawns}

\* Child::kill may fail.
kill_result == BOOLEAN

\* The answers a run of probes gets: answers[i] is the answer to the i-th
\* probe. wait_for_health stops at the first TRUE, so the sequences that
\* differ in where the first TRUE stands (or have none) cover its runs.
HealthAnswers(n) == {[i \in 1..n |-> i >= k] : k \in 1..(n + 1)}

\* wait_for_health(max_attempts, delay_ms): for attempt in 1..=max_attempts,
\* return true at the first probe that succeeds, sleep after one that fails;
\* false when the loop ends. The loop reads and writes no shared state.
wait_for_health(max_attempts, answers) ==
    \E attempt \in 1..max_attempts : answers[attempt]

\* What wait_for_health(30, 500) may return, over the answers it may get.
HealthWaitResults ==
    {wait_for_health(HEALTH_ATTEMPTS, a) : a \in HealthAnswers(HEALTH_ATTEMPTS)}

\* ------------------------------------------------------------------ helpers
\* Where a caller continues when its command returns.
AfterReturn(c) == IF c = "setup" THEN "emit" ELSE "idle"

Return(c, r) ==
    /\ pc' = [pc EXCEPT ![c] = AfterReturn(c)]
    /\ ret' = [ret EXCEPT ![c] = r]

\* A start that takes the empty slot for a tracked process.
AlreadyTracked_Inverted == child = None

\* child_lock.is_some() at the top of start_backend_server
AlreadyTracked == child # None

\* ------------------------------------------------------ start_backend_server
\* lock; if child_lock.is_some() return "already running"; unlock
StartCheck(c) ==
    /\ pc[c] = "start_check"
    /\ lock = "free"
    /\ IF AlreadyTracked
       THEN Return(c, OkRunning)
       ELSE /\ pc' = [pc EXCEPT ![c] = "start_probe"]
            /\ ret' = ret
    /\ UNCHANGED aux
    /\ UNCHANGED <<release, shared, tmp, probed, ui_calls, events, wdv, closed>>

\* if poll_health_once().await { return Ok("already running externally") }
\* #[cfg(debug_assertions)] { return Ok("Development mode ..") }
\* #[cfg(not(debug_assertions))] { spawn .. }
AfterProbe_NoExternalCheck(ok) ==
    IF ~release THEN "dev"
    ELSE "spawn"

AfterProbe(ok) ==
    IF ok THEN "external"
    ELSE IF ~release THEN "dev"
    ELSE "spawn"

\* A start that takes the backend answering its probe for its own and
\* records a handle for it: a process the supervisor did not spawn.
StartProbe_AdoptExternal(c) ==
    /\ pc[c] = "start_probe"
    /\ \E ok \in poll_health_once :
         /\ probed' = [probed EXCEPT ![c] = IF ok THEN "ok" ELSE "failed"]
         /\ CASE AfterProbe(ok) = "external" ->
                   /\ Return(c, OkExternal)
                   /\ child' = MaxSpawns + 1
              [] AfterProbe(ok) = "dev" ->
                   /\ Return(c, OkDevMode)
                   /\ child' = child
              [] AfterProbe(ok) = "spawn" ->
                   /\ pc' = [pc EXCEPT ![c] = "start_spawn"]
                   /\ ret' = ret
                   /\ child' = child
    /\ UNCHANGED aux
    /\ UNCHANGED <<release, shutting_down, lock, live, spawned, tmp, ui_calls,
                   events, wdv, closed>>

StartProbe(c) ==
    /\ pc[c] = "start_probe"
    /\ \E ok \in poll_health_once :
         /\ probed' = [probed EXCEPT ![c] = IF ok THEN "ok" ELSE "failed"]
         /\ CASE AfterProbe(ok) = "external" -> Return(c, OkExternal)
              [] AfterProbe(ok) = "dev" -> Return(c, OkDevMode)
              [] AfterProbe(ok) = "spawn" ->
                   /\ pc' = [pc EXCEPT ![c] = "start_spawn"]
                   /\ ret' = ret
    /\ UNCHANGED aux
    /\ UNCHANGED <<release, shared, tmp, ui_calls, events, wdv, closed>>

\* let mut child = spawn_embedded_backend(&_app)?;
StartSpawn(c) ==
    /\ pc[c] = "start_spawn"
    /\ \E ok \in spawn_embedded_backend :
         IF ok
         THEN /\ spawned' = spawned + 1
              /\ live' = live \cup {spawned + 1}
              /\ tmp' = [tmp EXCEPT ![c] = spawned + 1]
              /\ pc' = [pc EXCEPT ![c] = "start_store"]
              /\ ret' = ret
         ELSE /\ Return(c, ErrSpawn)
              /\ UNCHANGED <<spawned, live, tmp>>
    /\ UNCHANGED aux
    /\ UNCHANGED <<release, child, shutting_down, lock, probed, ui_calls,
                   events, wdv, closed>>

\* lock; *child_lock = Some(child); unlock  (the old value is dropped, and
\* dropping a Child neither kills nor waits for its process)
StartStore(c) ==
    /\ pc[c] = "start_store"
    /\ lock = "free"
    /\ child' = tmp[c]
    /\ tmp' = [tmp EXCEPT ![c] = None]
    /\ pc' = [pc EXCEPT ![c] = "start_wait"]
    /\ UNCHANGED aux
    /\ UNCHANGED <<release, shutting_down, lock, live, spawned, ret, probed,
                   ui_calls, events, wdv, closed>>

\* if !wait_for_health(30, 500).await { eprintln!(..) }; Ok("started")
StartWait_FailsOnExhausted(c) ==
    /\ pc[c] = "start_wait"
    /\ \E healthy \in HealthWaitResults :
         /\ probed' = [probed EXCEPT
                         ![c] = IF healthy THEN "healthy" ELSE "exhausted"]
         /\ IF healthy
            THEN Return(c, OkStarted)
            ELSE Return(c, ErrSpawn)
    /\ UNCHANGED aux
    /\ UNCHANGED <<release, shared, tmp, ui_calls, events, wdv, closed>>

StartWait(c) ==
    /\ pc[c] = "start_wait"
    /\ \E healthy \in HealthWaitResults :
         /\ probed' = [probed EXCEPT
                         ![c] = IF healthy THEN "healthy" ELSE "exhausted"]
         /\ IF healthy
            THEN Return(c, OkStarted)
            ELSE Return(c, OkStarted)
    /\ UNCHANGED aux
    /\ UNCHANGED <<release, shared, tmp, ui_calls, events, wdv, closed>>

start_backend_server(c) ==
    \/ StartCheck(c)
    \/ StartProbe(c)
    \/ StartSpawn(c)
    \/ StartStore(c)
    \/ StartWait(c)


\* ------------------------------------------------------- stop_backend_server
\* A command of the window event handler returning ends the handler.
StopReturn(c, r) ==
    /\ Return(c, r)
    /\ closed' = (closed \/ c = "close")

\* A stop that reports an empty slot as a failure.
StopTake_NoneIsError(c) ==
    /\ pc[c] = "stop_take"
    /\ lock = "free"
    /\ IF child # None
       THEN /\ tmp' = [tmp EXCEPT ![c] = child]
            /\ child' = None
            /\ lock' = c
            /\ pc' = [pc EXCEPT ![c] = "stop_kill"]
            /\ UNCHANGED <<ret, closed>>
       ELSE /\ StopReturn(c, ErrKill)
            /\ UNCHANGED <<tmp, child, lock>>
    /\ UNCHANGED aux
    /\ UNCHANGED <<release, shutting_down, live, spawned, probed, ui_calls,
                   events, wdv>>

\* let mut child_lock = lock(); if let Some(mut child) = child_lock.take()
StopTake(c) ==
    /\ pc[c] = "stop_take"
    /\ lock = "free"
    /\ IF child # None
       THEN /\ tmp' = [tmp EXCEPT ![c] = child]
            /\ child' = None
            /\ lock' = c
            /\ pc' = [pc EXCEPT ![c] = "stop_kill"]
            /\ UNCHANGED <<ret, closed>>
       ELSE /\ StopReturn(c, OkNotRunning)
            /\ UNCHANGED <<tmp, child, lock>>
    /\ UNCHANGED aux
    /\ UNCHANGED <<release, shutting_down, live, spawned, probed, ui_calls,
                   events, wdv>>

\* child.kill().map_err(..)?  (on Err the taken child and the guard are dropped)
StopKill(c) ==
    /\ pc[c] = "stop_kill"
    /\ \E ok \in kill_result :
         IF ok
         THEN /\ pc' = [pc EXCEPT ![c] = "stop_wait"]
              /\ UNCHANGED <<tmp, lock, ret, closed>>
         ELSE /\ tmp' = [tmp EXCEPT ![c] = None]
              /\ lock' = "free"
              /\ StopReturn(c, ErrKill)
    /\ UNCHANGED aux
    /\ UNCHANGED <<release, child, shutting_down, live, spawned, probed,
                   ui_calls, events, wdv>>

\* A stop that returns after the kill without waiting for the exit.
StopWait_NoWait(c) ==
    /\ pc[c] = "stop_wait"
    /\ tmp' = [tmp EXCEPT ![c] = None]
    /\ lock' = "free"
    /\ StopReturn(c, OkStopped)
    /\ UNCHANGED aux
    /\ UNCHANGED <<release, child, shutting_down, live, spawned, probed,
                   ui_calls, events, wdv>>

\* let _ = child.wait(); Ok("stopped")  (the guard is dropped on return)
StopWait(c) ==
    /\ pc[c] = "stop_wait"
    /\ live' = live \ {tmp[c]}
    /\ tmp' = [tmp EXCEPT ![c] = None]
    /\ lock' = "free"
    /\ StopReturn(c, OkStopped)
    /\ UNCHANGED aux
    /\ UNCHANGED <<release, child, shutting_down, spawned, probed, ui_calls,
                   events, wdv>>

stop_backend_server(c) ==
    \/ StopTake(c)
    \/ StopKill(c)
    \/ StopWait(c)

\* ------------------------------------------------------ check_backend_health
check_backend_health(c) ==
    /\ pc[c] = "health_probe"
    /\ \E ok \in poll_health_once : Return(c, OkHealth(ok))
    /\ UNCHANGED aux
    /\ UNCHANGED <<release, shared, tmp, probed, ui_calls, events, wdv, closed>>

\* ------------------------------------------------------------------ frontend
\* invoke_handler: the frontend invokes one of the three commands. The
\* window's messages and its CloseRequested event come through the same
\* event loop, so no command is invoked once the close handler has begun;
\* a command invoked before goes on running.
UiInvoke ==
    /\ pc["ui"] = "idle"
    /\ ~shutting_down
    /\ ui_calls < MaxUiCalls
    /\ ui_calls' = ui_calls + 1
    /\ \E first \in {"start_check", "stop_take", "health_probe"} :
         pc' = [pc EXCEPT !["ui"] = first]
    /\ ret' = [ret EXCEPT !["ui"] = NoRet]
    /\ probed' = [probed EXCEPT !["ui"] = "none"]
    /\ UNCHANGED aux
    /\ UNCHANGED <<release, shared, tmp, events, wdv, closed>>

\* ---------------------------------------------------------- setup task, main
\* sleep(500ms); start_backend_server(..).await
SetupStart ==
    /\ pc["setup"] = "sleep"
    /\ pc' = [pc EXCEPT !["setup"] = "start_check"]
    /\ UNCHANGED aux
    /\ UNCHANGED <<release, shared, tmp, ret, probed, ui_calls, events, wdv,
                   closed>>

\* A setup task that reports "running" whatever start returned.
SetupEmit_AlwaysRunning ==
    /\ pc["setup"] = "emit"
    /\ pc' = [pc EXCEPT !["setup"] = "done"]
    /\ events' = Append(events, Event("setup", "running", ret["setup"].msg))
    /\ wd_pc' = IF release /\ ret["setup"].ok THEN "init_sleep" ELSE wd_pc
    /\ UNCHANGED aux
    /\ UNCHANGED <<release, shared, tmp, ret, probed, ui_calls, closed,
                   wd_old, wd_new, consecutive_failures, restart_count, wd_hist>>

\* Ok(msg): emit "running", spawn backend_watchdog (release builds);
\* Err(e): emit "error"
SetupEmit ==
    /\ pc["setup"] = "emit"
    /\ pc' = [pc EXCEPT !["setup"] = "done"]
    /\ IF ret["setup"].ok
       THEN /\ events' =
                 Append(events, Event("setup", "running", ret["setup"].msg))
            /\ wd_pc' = IF release THEN "init_sleep" ELSE wd_pc
       ELSE /\ events' =
                 Append(events, Event("setup", "error", ret["setup"].msg))
            /\ wd_pc' = wd_pc
    /\ UNCHANGED aux
    /\ UNCHANGED <<release, shared, tmp, ret, probed, ui_calls, closed,
                   wd_old, wd_new, consecutive_failures, restart_count, wd_hist>>

\* ------------------------------------------------- on_window_event handler
\* Positions of the watchdog after the failure of this wake was detected and
\* before its kill or spawn has run.
RestartPending == {"restart", "kill"}

\* A close handler that starts the stop and returns without waiting for it.
CloseRequested_FireAndForget ==
    /\ pc["close"] = "idle"
    /\ ~closed
    /\ closed' = TRUE
    /\ shutting_down' = TRUE
    /\ late_shutdown' =
         (late_shutdown \/ (~shutting_down /\ wd_pc \in RestartPending))
    /\ pc' = [pc EXCEPT !["close"] = "stop_take"]
    /\ ret' = [ret EXCEPT !["close"] = NoRet]
    /\ UNCHANGED aux
    /\ UNCHANGED <<release, child, lock, live, spawned, tmp, probed, ui_calls,
                   events, wd_pc, wd_old, wd_new, consecutive_failures,
                   restart_count, cyc_kills, cyc_spawns, fail_run, wd_wait,
                   wd_spawn_calls>>

\* CloseRequested: shutting_down.store(true); block_on(stop_backend_server)
CloseRequested ==
    /\ pc["close"] = "idle"
    /\ ~closed
    /\ shutting_down' = TRUE
    /\ late_shutdown' =
         (late_shutdown \/ (~shutting_down /\ wd_pc \in RestartPending))
    /\ pc' = [pc EXCEPT !["close"] = "stop_take"]
    /\ ret' = [ret EXCEPT !["close"] = NoRet]
    /\ UNCHANGED aux
    /\ UNCHANGED <<release, child, lock, live, spawned, tmp, probed, ui_calls,
                   events, closed, wd_pc, wd_old, wd_new, consecutive_failures,
                   restart_count, cyc_kills, cyc_spawns, fail_run, wd_wait,
                   wd_spawn_calls>>


\* ----------------------------------------------------------- backend_watchdog
WdEvent(status, msg) == Append(events, Event("watchdog", status, msg))

\* A threshold test that is off by one.
BelowThreshold_OffByOne(failures) == failures <= MAX_FAILURES_BEFORE_RESTART

\* if consecutive_failures < MAX_FAILURES_BEFORE_RESTART { continue; }
BelowThreshold(failures) == failures < MAX_FAILURES_BEFORE_RESTART

\* A budget test that is off by one.
BudgetExhausted_OffByOne(restarts) == restarts > MAX_RESTARTS

\* if restart_count >= MAX_RESTARTS { emit error; break; }
BudgetExhausted(restarts) == restarts >= MAX_RESTARTS

\* tokio::time::sleep(20s) before the loop
WdInitialSleep ==
    /\ wd_pc = "init_sleep"
    /\ wd_pc' = "sleep"
    /\ UNCHANGED aux
    /\ UNCHANGED <<release, shared, callerv, events, closed, wd_old,
                   wd_new, consecutive_failures, restart_count, wd_hist>>

\* A wake that honours the shutdown flag only when no failure is counted.
WdWake_ExitOnlyWhenHealthy ==
    /\ wd_pc = "sleep"
    /\ wd_pc' = IF shutting_down /\ consecutive_failures = 0
                THEN "exited" ELSE "probe"
    /\ late_shutdown' = FALSE
    /\ cyc_kills' = 0
    /\ cyc_spawns' = 0
    /\ wd_wait' = "none"
    /\ UNCHANGED aux
    /\ UNCHANGED <<release, shared, callerv, events, closed, wd_old,
                   wd_new, consecutive_failures, restart_count, fail_run,
                   wd_spawn_calls>>

\* A wake that never reads the shutdown flag.
WdWake_IgnoresShutdown ==
    /\ wd_pc = "sleep"
    /\ wd_pc' = "probe"
    /\ late_shutdown' = FALSE
    /\ cyc_kills' = 0
    /\ cyc_spawns' = 0
    /\ wd_wait' = "none"
    /\ UNCHANGED aux
    /\ UNCHANGED <<release, shared, callerv, events, closed, wd_old,
                   wd_new, consecutive_failures, restart_count, fail_run,
                   wd_spawn_calls>>

\* sleep(15s); if shutting_down.load() { break; }
WdWake ==
    /\ wd_pc = "sleep"
    /\ wd_pc' = IF shutting_down THEN "exited" ELSE "probe"
    /\ late_shutdown' = FALSE
    /\ cyc_kills' = 0
    /\ cyc_spawns' = 0
    /\ wd_wait' = "none"
    /\ UNCHANGED aux
    /\ UNCHANGED <<release, shared, callerv, events, closed, wd_old,
                   wd_new, consecutive_failures, restart_count, fail_run,
                   wd_spawn_calls>>

\* A wake probe whose success leaves consecutive_failures as it was.
WdProbe_NoReset ==
    /\ wd_pc = "probe"
    /\ \E ok \in poll_health_once :
         /\ fail_run' = IF ok THEN 0 ELSE fail_run + 1
         /\ IF ok
            THEN /\ consecutive_failures' = consecutive_failures
                 /\ wd_pc' = "sleep"
            ELSE /\ consecutive_failures' = consecutive_failures + 1
                 /\ wd_pc' = IF BelowThreshold(consecutive_failures + 1)
                             THEN "sleep" ELSE "restart"
    /\ UNCHANGED aux
    /\ UNCHANGED <<release, shared, callerv, events, closed, wd_old,
                   wd_new, restart_count, late_shutdown, cyc_kills, cyc_spawns,
                   wd_wait, wd_spawn_calls>>

\* if poll_health_once().await { consecutive_failures = 0; continue; }
\* consecutive_failures += 1; if below the threshold { continue; }
WdProbe ==
    /\ wd_pc = "probe"
    /\ \E ok \in poll_health_once :
         /\ fail_run' = IF ok THEN 0 ELSE fail_run + 1
         /\ IF ok
            THEN /\ consecutive_failures' = 0
                 /\ wd_pc' = "sleep"
            ELSE /\ consecutive_failures' = consecutive_failures + 1
                 /\ wd_pc' = IF BelowThreshold(consecutive_failures + 1)
                             THEN "sleep" ELSE "restart"
    /\ UNCHANGED aux
    /\ UNCHANGED <<release, shared, callerv, events, closed, wd_old,
                   wd_new, restart_count, late_shutdown, cyc_kills, cyc_spawns,
                   wd_wait, wd_spawn_calls>>

\* A give-up that goes round the loop again instead of leaving it.
WdDecide_Continue ==
    /\ wd_pc = "restart"
    /\ IF BudgetExhausted(restart_count)
       THEN /\ events' = WdEvent("error", "giving up")
            /\ wd_pc' = "sleep"
       ELSE /\ events' = WdEvent("restarting", "restarting")
            /\ wd_pc' = "kill"
    /\ UNCHANGED aux
    /\ UNCHANGED <<release, shared, callerv, closed, wd_old, wd_new,
                   consecutive_failures, restart_count, wd_hist>>

\* A restart that is not announced by a "restarting" event.
WdDecide_NoRestartingEvent ==
    /\ wd_pc = "restart"
    /\ IF BudgetExhausted(restart_count)
       THEN /\ events' = WdEvent("error", "giving up")
            /\ wd_pc' = "failed"
       ELSE /\ events' = events
            /\ wd_pc' = "kill"
    /\ UNCHANGED aux
    /\ UNCHANGED <<release, shared, callerv, closed, wd_old, wd_new,
                   consecutive_failures, restart_count, wd_hist>>

\* give up with an "error" event once the budget is used, else emit
\* "restarting"
WdDecide ==
    /\ wd_pc = "restart"
    /\ IF BudgetExhausted(restart_count)
       THEN /\ events' = WdEvent("error", "giving up")
            /\ wd_pc' = "failed"
       ELSE /\ events' = WdEvent("restarting", "restarting")
            /\ wd_pc' = "kill"
    /\ UNCHANGED aux
    /\ UNCHANGED <<release, shared, callerv, closed, wd_old, wd_new,
                   consecutive_failures, restart_count, wd_hist>>

\* lock; if let Some(mut child) = child_lock.take()
WdTake ==
    /\ wd_pc = "kill"
    /\ lock = "free"
    /\ IF child # None
       THEN /\ wd_old' = child
            /\ child' = None
            /\ lock' = "watchdog"
            /\ wd_pc' = "killing"
       ELSE /\ wd_pc' = "spawn"
            /\ UNCHANGED <<wd_old, child, lock>>
    /\ UNCHANGED aux
    /\ UNCHANGED <<release, shutting_down, live, spawned, callerv,
                   events, closed, wd_new, consecutive_failures, restart_count,
                   wd_hist>>

\* let _ = child.kill();  (a failure is ignored)
WdKill ==
    /\ wd_pc = "killing"
    /\ \E ok \in kill_result : wd_pc' = "reaping"
    /\ cyc_kills' = cyc_kills + 1
    /\ UNCHANGED aux
    /\ UNCHANGED <<release, shared, callerv, events, closed, wd_old,
                   wd_new, consecutive_failures, restart_count, late_shutdown,
                   cyc_spawns, fail_run, wd_wait, wd_spawn_calls>>

\* A reap that keeps the guard over the spawn that follows.
WdReap_KeepsLock ==
    /\ wd_pc = "reaping"
    /\ live' = live \ {wd_old}
    /\ wd_old' = None
    /\ lock' = lock
    /\ wd_pc' = "spawn"
    /\ UNCHANGED aux
    /\ UNCHANGED <<release, child, shutting_down, spawned, callerv,
                   events, closed, wd_new, consecutive_failures, restart_count,
                   wd_hist>>

\* let _ = child.wait();  then the guard is dropped
WdReap ==
    /\ wd_pc = "reaping"
    /\ live' = live \ {wd_old}
    /\ wd_old' = None
    /\ lock' = "free"
    /\ wd_pc' = "spawn"
    /\ UNCHANGED aux
    /\ UNCHANGED <<release, child, shutting_down, spawned, callerv,
                   events, closed, wd_new, consecutive_failures, restart_count,
                   wd_hist>>

\* A spawn failure that is not counted as a restart attempt.
WdSpawn_NoCount ==
    /\ wd_pc = "spawn"
    /\ cyc_spawns' = cyc_spawns + 1
    /\ wd_spawn_calls' = wd_spawn_calls + 1
    /\ \E ok \in spawn_embedded_backend :
         IF ok
         THEN /\ spawned' = spawned + 1
              /\ live' = live \cup {spawned + 1}
              /\ wd_new' = spawned + 1
              /\ wd_pc' = "store"
              /\ UNCHANGED <<restart_count, events>>
         ELSE /\ restart_count' = restart_count
              /\ events' = WdEvent("error", "spawn failed")
              /\ wd_pc' = "sleep"
              /\ UNCHANGED <<spawned, live, wd_new>>
    /\ UNCHANGED aux
    /\ UNCHANGED <<release, child, shutting_down, lock, callerv,
                   closed, wd_old, consecutive_failures, late_shutdown, cyc_kills,
                   fail_run, wd_wait>>

\* match spawn_embedded_backend(&app_handle)
\*   Err(e): restart_count += 1; emit "error"
WdSpawn ==
    /\ wd_pc = "spawn"
    /\ cyc_spawns' = cyc_spawns + 1
    /\ wd_spawn_calls' = wd_spawn_calls + 1
    /\ \E ok \in spawn_embedded_backend :
         IF ok
         THEN /\ spawned' = spawned + 1
              /\ live' = live \cup {spawned + 1}
              /\ wd_new' = spawned + 1
              /\ wd_pc' = "store"
              /\ UNCHANGED <<restart_count, events>>
         ELSE /\ restart_count' = restart_count + 1
              /\ events' = WdEvent("error", "spawn failed")
              /\ wd_pc' = "sleep"
              /\ UNCHANGED <<spawned, live, wd_new>>
    /\ UNCHANGED aux
    /\ UNCHANGED <<release, child, shutting_down, lock, callerv,
                   closed, wd_old, consecutive_failures, late_shutdown, cyc_kills,
                   fail_run, wd_wait>>

\* lock; *child_lock = Some(child); unlock
WdStore ==
    /\ wd_pc = "store"
    /\ lock = "free"
    /\ child' = wd_new
    /\ wd_new' = None
    /\ wd_pc' = "wait"
    /\ UNCHANGED aux
    /\ UNCHANGED <<release, shutting_down, lock, live, spawned,
                   callerv, events, closed, wd_old, consecutive_failures,
                   restart_count, wd_hist>>

\* A successful restart that leaves consecutive_failures as it was.
WdWait_NoReset ==
    /\ wd_pc = "wait"
    /\ \E healthy \in HealthWaitResults :
         IF healthy
         THEN /\ restart_count' = restart_count + 1
              /\ events' = WdEvent("running", "restarted")
              /\ wd_wait' = "healthy"
              /\ UNCHANGED consecutive_failures
         ELSE /\ restart_count' = restart_count + 1
              /\ wd_wait' = "exhausted"
              /\ UNCHANGED <<consecutive_failures, events>>
    /\ wd_pc' = "sleep"
    /\ UNCHANGED aux
    /\ UNCHANGED <<release, shared, callerv, closed, wd_old, wd_new,
                   late_shutdown, cyc_kills, cyc_spawns, fail_run,
                   wd_spawn_calls>>

\* An exhausted health wait that clears consecutive_failures as well.
WdWait_ResetOnExhausted ==
    /\ wd_pc = "wait"
    /\ \E healthy \in HealthWaitResults :
         IF healthy
         THEN /\ restart_count' = restart_count + 1
              /\ consecutive_failures' = 0
              /\ events' = WdEvent("running", "restarted")
              /\ wd_wait' = "healthy"
         ELSE /\ restart_count' = restart_count + 1
              /\ consecutive_failures' = 0
              /\ wd_wait' = "exhausted"
              /\ UNCHANGED events
    /\ wd_pc' = "sleep"
    /\ UNCHANGED aux
    /\ UNCHANGED <<release, shared, callerv, closed, wd_old, wd_new,
                   late_shutdown, cyc_kills, cyc_spawns, fail_run,
                   wd_spawn_calls>>

\* if wait_for_health(30, 500).await
\*   { restart_count += 1; consecutive_failures = 0; emit "running" }
\* else { restart_count += 1 }
WdWait ==
    /\ wd_pc = "wait"
    /\ \E healthy \in HealthWaitResults :
         IF healthy
         THEN /\ restart_count' = restart_count + 1
              /\ consecutive_failures' = 0
              /\ events' = WdEvent("running", "restarted")
              /\ wd_wait' = "healthy"
         ELSE /\ restart_count' = restart_count + 1
              /\ wd_wait' = "exhausted"
              /\ UNCHANGED <<consecutive_failures, events>>
    /\ wd_pc' = "sleep"
    /\ UNCHANGED aux
    /\ UNCHANGED <<release, shared, callerv, closed, wd_old, wd_new,
                   late_shutdown, cyc_kills, cyc_spawns, fail_run,
                   wd_spawn_calls>>

backend_watchdog ==
    \/ WdInitialSleep
    \/ WdWake
    \/ WdProbe
    \/ WdDecide
    \/ WdTake
    \/ WdKill
    \/ WdReap
    \/ WdSpawn
    \/ WdStore
    \/ WdWait

\* ------------------------------------------------------------ specification
Next ==
    \/ SetupStart
    \/ SetupEmit
    \/ UiInvoke
    \/ CloseRequested
    \/ \E c \in {"setup", "ui"} : start_backend_server(c)
    \/ \E c \in {"ui", "close"} : stop_backend_server(c)
    \/ check_backend_health("ui")
    \/ backend_watchdog

Spec == Init /\ [][Next]_vars

TypeOK ==
    /\ release \in BOOLEAN
    /\ child \in Pids \cup {None}
    /\ shutting_down \in BOOLEAN
    /\ lock \in {"free", "ui", "close", "watchdog"}
    /\ live \subseteq Pids
    /\ spawned \in 0..MaxSpawns
    /\ ui_calls \in 0..MaxUiCalls
    /\ restart_count \in Nat
    /\ consecutive_failures \in Nat

\* ------------------------------------------------ wait_for_health, stepwise
\* The supervisor at rest, for the parts that run apart from it.
SupervisorOff == SupervisorInit /\ release = FALSE

\* A loop range that leaves out its upper end.
InRange_Exclusive(attempt, max_attempts) == attempt < max_attempts

\* for attempt in 1..=max_attempts
InRange(attempt, max_attempts) == attempt <= max_attempts

\* A call wait_for_health(max_attempts, delay_ms); answers[i] is what the
\* endpoint answers to the i-th probe of the call.
WfhInit ==
    /\ SupervisorOff
    /\ CleanupOff
    /\ MenuOff
    /\ \E m \in 0..MaxAttempts, a \in [1..MaxAttempts -> BOOLEAN] :
         wfh = [max_attempts |-> m, answers |-> a, attempt |-> 1,
                probes |-> 0, ret |-> "running"]

\* if poll_health_once().await { return true; }  sleep(delay_ms).await;
WfhAttempt ==
    /\ wfh.ret = "running"
    /\ InRange(wfh.attempt, wfh.max_attempts)
    /\ wfh' = IF wfh.answers[wfh.attempt]
              THEN [wfh EXCEPT !.probes = @ + 1, !.ret = "true"]
              ELSE [wfh EXCEPT !.probes = @ + 1, !.attempt = @ + 1]
    /\ UNCHANGED <<supervisor, target_os, fs, del, tests, menu>>

\* the loop is over: false
WfhExhausted ==
    /\ wfh.ret = "running"
    /\ ~InRange(wfh.attempt, wfh.max_attempts)
    /\ wfh' = [wfh EXCEPT !.ret = "false"]
    /\ UNCHANGED <<supervisor, target_os, fs, del, tests, menu>>

WfhNext ==
    \/ WfhAttempt
    \/ WfhExhausted

SpecWaitForHealth == WfhInit /\ [][WfhNext]_vars

\* ---------------------------------------------------------------- cleanup.rs
TargetOs == {"windows", "macos", "other"}

\* Paths are sequences of components. PathBuf::join appends one;
\* starts_with: path is p or lies beneath it.
join(path, name) == Append(path, name)
starts_with(path, p) ==
    Len(p) <= Len(path) /\ SubSeq(path, 1, Len(p)) = p

\* dirs::home_dir(), dirs::data_dir(), dirs::data_local_dir(): the local
\* data directory differs from the data directory on Windows only.
home_dir == <<"~">>
data_dir(os) ==
    CASE os = "windows" -> <<"{RoamingAppData}">>
      [] os = "macos" -> <<"~", "Library", "Application Support">>
      [] OTHER -> <<"~", ".local", "share">>
data_local_dir(os) ==
    IF os = "windows" THEN <<"{LocalAppData}">> ELSE data_dir(os)

\* let na = home.join(".narrative_assistant");
na == join(home_dir, ".narrative_assistant")

\* get_data_categories: app_data_path, and the path of each category
app_data_path(os) ==
    IF os = "windows"
    THEN join(data_local_dir(os), "Narrative Assistant")
    ELSE IF os = "macos"
    THEN join(data_dir(os), "Narrative Assistant")
    ELSE join(data_dir(os), "narrative-assistant")

CategoryIds == {"app_cache", "user_data", "models", "ollama", "huggingface"}

CategoryPath(id, os) ==
    CASE id = "app_cache" -> app_data_path(os)
      [] id = "user_data" -> na
      [] id = "models" -> join(na, "models")
      [] id = "ollama" -> join(home_dir, ".ollama")
      [] id = "huggingface" -> join(join(home_dir, ".cache"), "huggingface")

\* delete_data_category, "app_cache": the path it removes
DeleteAppCachePath(os) ==
    IF os = "windows"
    THEN join(data_local_dir(os), "Narrative Assistant")
    ELSE join(data_dir(os), "Narrative Assistant")

\* delete_data_category, "user_data": the db files and the directories
DbFiles ==
    {join(na, "narrative_assistant.db"),
     join(na, "narrative_assistant.db-shm"),
     join(na, "narrative_assistant.db-wal")}
UserDataDirs == {join(na, "data"), join(na, "documents")}

\* What may be on disk: the paths cleanup.rs names, and one more entry of
\* ~/.narrative_assistant that it does not name.
DiskEntries(os) ==
    {join(data_local_dir(os), "Narrative Assistant"),
     join(data_dir(os), "Narrative Assistant"),
     join(data_dir(os), "narrative-assistant"),
     na, join(na, "models"), join(na, "logs"),
     join(home_dir, ".ollama"),
     join(join(home_dir, ".cache"), "huggingface")}
      \cup DbFiles \cup UserDataDirs

\* An entry of ~/.narrative_assistant exists only inside that directory.
DiskStates(os) ==
    {f \in SUBSET DiskEntries(os) :
        \A q \in f : starts_with(q, na) => na \in f}

\* fs::remove_dir_all removes a path with all beneath it; fs::remove_dir
\* removes an empty directory and fails on any other.
remove_dir_all(files, path) == {q \in files : ~starts_with(q, path)}
remove_dir(files, path) ==
    IF path \in files /\ \A q \in files : starts_with(q, path) => q = path
    THEN files \ {path}
    ELSE files

\* The ids a caller may pass: the five categories and any other string.
DeleteIds == CategoryIds \cup {"unknown_id", ""}

ErrNoHome ==
    [ok |-> FALSE, msg |-> "No se pudo determinar el directorio home"]
OkAppCache == [ok |-> TRUE, msg |-> "Datos de la aplicacion eliminados"]
OkUserData == [ok |-> TRUE, msg |-> "Proyectos y base de datos eliminados"]
OkModels == [ok |-> TRUE, msg |-> "Modelos NLP eliminados"]
ErrRemove == [ok |-> FALSE, msg |-> "Error eliminando"]
ErrShared ==
    [ok |-> FALSE,
     msg |-> "Los directorios compartidos no se pueden eliminar"]
ErrUnknown == [ok |-> FALSE, msg |-> "Categoria desconocida"]

CleanupInit ==
    /\ SupervisorOff
    /\ WfhOff
    /\ MenuOff
    /\ target_os \in TargetOs
    /\ fs \in DiskStates(target_os)
    /\ del = [id |-> "", pc |-> "idle", ret |-> NoRet]

DeleteReturn(r) == del' = [del EXCEPT !.pc = "idle", !.ret = r]

\* delete_data_category(id): let home = dirs::home_dir().ok_or(..)?;
DeleteCall ==
    /\ del.pc = "idle"
    /\ \E id \in DeleteIds, home \in BOOLEAN :
         del' = IF home
                THEN [id |-> id, pc |-> "match", ret |-> NoRet]
                ELSE [id |-> id, pc |-> "idle", ret |-> ErrNoHome]
    /\ UNCHANGED <<supervisor, wfh, target_os, fs, tests, menu>>

\* "app_cache" => if path.exists() { fs::remove_dir_all(&path)? }
DeleteAppCache ==
    /\ del.pc = "match"
    /\ del.id = "app_cache"
    /\ LET path == DeleteAppCachePath(target_os) IN
         IF path \in fs
         THEN \E removed \in BOOLEAN :
                IF removed
                THEN /\ fs' = remove_dir_all(fs, path)
                     /\ DeleteReturn(OkAppCache)
                ELSE /\ fs' = fs
                     /\ DeleteReturn(ErrRemove)
         ELSE /\ fs' = fs
              /\ DeleteReturn(OkAppCache)
    /\ UNCHANGED <<supervisor, wfh, target_os, tests, menu>>

\* "user_data" => every db file and directory that exists is removed, a
\* failure ignored; then let _ = fs::remove_dir(&na);
DeleteUserData ==
    /\ del.pc = "match"
    /\ del.id = "user_data"
    /\ \E kept \in SUBSET ((DbFiles \cup UserDataDirs) \cap fs) :
         LET gone == ((DbFiles \cup UserDataDirs) \cap fs) \ kept
             left == {q \in fs : \A g \in gone : ~starts_with(q, g)}
         IN  \E removed \in BOOLEAN :
                fs' = IF removed THEN remove_dir(left, na) ELSE left
    /\ DeleteReturn(OkUserData)
    /\ UNCHANGED <<supervisor, wfh, target_os, tests, menu>>

\* "models" => if path.exists() { fs::remove_dir_all(&path)? }
\*             let _ = fs::remove_dir(&na);
DeleteModels ==
    /\ del.pc = "match"
    /\ del.id = "models"
    /\ LET path == join(na, "models") IN
         \E removed \in BOOLEAN, parent_removed \in BOOLEAN :
           IF path \in fs /\ ~removed
           THEN /\ fs' = fs
                /\ DeleteReturn(ErrRemove)
           ELSE /\ fs' = IF parent_removed
                         THEN remove_dir(remove_dir_all(fs, path), na)
                         ELSE remove_dir_all(fs, path)
                /\ DeleteReturn(OkModels)
    /\ UNCHANGED <<supervisor, wfh, target_os, tests, menu>>

\* "ollama" | "huggingface" => Err(..)
DeleteShared ==
    /\ del.pc = "match"
    /\ del.id \in {"ollama", "huggingface"}
    /\ DeleteReturn(ErrShared)
    /\ UNCHANGED <<supervisor, wfh, target_os, fs, tests, menu>>

\* _ => Err(format!("Categoria desconocida: {}", id))
DeleteUnknown ==
    /\ del.pc = "match"
    /\ del.id \notin {"app_cache", "user_data", "models", "ollama",
                      "huggingface"}
    /\ DeleteReturn(ErrUnknown)
    /\ UNCHANGED <<supervisor, wfh, target_os, fs, tests, menu>>

delete_data_category ==
    \/ DeleteCall
    \/ DeleteAppCache
    \/ DeleteUserData
    \/ DeleteModels
    \/ DeleteShared
    \/ DeleteUnknown

SpecCleanup == CleanupInit /\ [][delete_data_category]_vars

\* ------------------------------------------------------- get_data_categories
\* dir_size: 0 when the path does not exist, else the sum of the lengths of
\* the files beneath it; every entry on disk counts as one byte of content.
dir_size(files, path) ==
    IF path \notin files
    THEN 0
    ELSE Cardinality({q \in files : starts_with(q, path)})

\* size_bytes of a category; "user_data" counts the db file, data/ and
\* documents/, not models/.
size_bytes(id, files, os) ==
    IF id = "user_data"
    THEN (IF join(na, "narrative_assistant.db") \in files THEN 1 ELSE 0)
           + dir_size(files, join(na, "data"))
           + dir_size(files, join(na, "documents"))
    ELSE dir_size(files, CategoryPath(id, os))

\* exists of a category; "user_data" exists when the db file or data/ does.
exists(id, files, os) ==
    IF id = "user_data"
    THEN join(na, "narrative_assistant.db") \in files
           \/ join(na, "data") \in files
    ELSE CategoryPath(id, os) \in files

\* What get_data_categories reports for each category, given the disk.
get_data_categories(files, os) ==
    [id \in CategoryIds |->
       [path |-> CategoryPath(id, os),
        size_bytes |-> size_bytes(id, files, os),
        exists |-> exists(id, files, os)]]

\* ------------------------------------------------------------------- menu.rs
\* The ids of the custom menu items, by menu
file_menu ==
    [NEW_PROJECT |-> "new_project", OPEN_PROJECT |-> "open_project",
     CLOSE_PROJECT |-> "close_project", IMPORT |-> "import",
     EXPORT |-> "export", SETTINGS |-> "settings"]
view_menu ==
    [CHAPTERS |-> "view_chapters", ENTITIES |-> "view_entities",
     RELATIONSHIPS |-> "view_relationships", ALERTS |-> "view_alerts",
     TIMELINE |-> "view_timeline", STYLE |-> "view_style",
     GLOSSARY |-> "view_glossary", SUMMARY |-> "view_summary",
     TOGGLE_INSPECTOR |-> "toggle_inspector",
     TOGGLE_SIDEBAR |-> "toggle_sidebar",
     TOGGLE_HISTORY |-> "toggle_history", TOGGLE_THEME |-> "toggle_theme"]
analysis_menu == [RUN |-> "run_analysis"]
help_menu ==
    [TUTORIAL |-> "tutorial", KEYBOARD_SHORTCUTS |-> "keyboard_shortcuts",
     USER_GUIDE |-> "user_guide", MANAGE_DATA |-> "manage_data",
     CHECK_UPDATES |-> "check_updates", ABOUT |-> "about"]

ALL_MENU_IDS ==
    <<file_menu.NEW_PROJECT, file_menu.OPEN_PROJECT, file_menu.CLOSE_PROJECT,
      file_menu.IMPORT, file_menu.EXPORT, file_menu.SETTINGS,
      view_menu.CHAPTERS, view_menu.ENTITIES, view_menu.RELATIONSHIPS,
      view_menu.ALERTS, view_menu.TIMELINE, view_menu.STYLE,
      view_menu.GLOSSARY, view_menu.SUMMARY, view_menu.TOGGLE_INSPECTOR,
      view_menu.TOGGLE_SIDEBAR, view_menu.TOGGLE_HISTORY,
      view_menu.TOGGLE_THEME,
      analysis_menu.RUN,
      help_menu.TUTORIAL, help_menu.KEYBOARD_SHORTCUTS, help_menu.USER_GUIDE,
      help_menu.MANAGE_DATA, help_menu.CHECK_UPDATES, help_menu.ABOUT>>

\* menu_ids_count_matches_expected: assert_eq!(ALL_MENU_IDS.len(), 23)
EXPECTED_MENU_IDS == 23

\* frontend_expected_ids_exist: the ids the frontend listens for
frontend_expects ==
    <<"new_project", "open_project", "close_project", "import", "export",
      "settings", "view_chapters", "view_entities", "view_alerts",
      "view_relationships", "view_timeline", "view_style", "view_glossary",
      "view_summary", "toggle_inspector", "toggle_sidebar", "run_analysis",
      "tutorial", "keyboard_shortcuts", "user_guide", "manage_data",
      "check_updates", "about">>

\* The tests of menu.rs run side by side, each to "passed" or, at a failed
\* assertion, to "failed".
MenuInit ==
    /\ SupervisorOff
    /\ WfhOff
    /\ CleanupOff
    /\ tests = [seen |-> {}, i |-> 1, unique |-> "running",
                count |-> "running", j |-> 1, expected |-> "running"]
    /\ menu = NoMenu

\* for id in ALL_MENU_IDS { assert!(seen.insert(*id)) }
menu_ids_are_unique ==
    /\ tests.unique = "running"
    /\ tests' =
         IF tests.i > Len(ALL_MENU_IDS)
         THEN [tests EXCEPT !.unique = "passed"]
         ELSE IF ALL_MENU_IDS[tests.i] \in tests.seen
         THEN [tests EXCEPT !.unique = "failed"]
         ELSE [tests EXCEPT !.seen = @ \cup {ALL_MENU_IDS[tests.i]},
                            !.i = @ + 1]
    /\ UNCHANGED <<supervisor, wfh, target_os, fs, del, menu>>

\* assert_eq!(ALL_MENU_IDS.len(), 23)
menu_ids_count_matches_expected ==
    /\ tests.count = "running"
    /\ tests' = [tests EXCEPT !.count =
                   IF Len(ALL_MENU_IDS) = EXPECTED_MENU_IDS
                   THEN "passed" ELSE "failed"]
    /\ UNCHANGED <<supervisor, wfh, target_os, fs, del, menu>>

\* for expected_id in &frontend_expects { assert!(ids.contains(..)) }
frontend_expected_ids_exist ==
    /\ tests.expected = "running"
    /\ LET ids == {ALL_MENU_IDS[k] : k \in 1..Len(ALL_MENU_IDS)} IN
         tests' =
           IF tests.j > Len(frontend_expects)
           THEN [tests EXCEPT !.expected = "passed"]
           ELSE IF frontend_expects[tests.j] \notin ids
           THEN [tests EXCEPT !.expected = "failed"]
           ELSE [tests EXCEPT !.j = @ + 1]
    /\ UNCHANGED <<supervisor, wfh, target_os, fs, del, menu>>

MenuTests ==
    \/ menu_ids_are_unique
    \/ menu_ids_count_matches_expected
    \/ frontend_expected_ids_exist

SpecMenuTests == MenuInit /\ [][MenuTests]_vars

\* --------------------------------------------- create_menu, handle_menu_event
\* The constructor calls of create_menu, in the order of the source.
with_id(id) == [make |-> "MenuItem::with_id", id |-> id]

predefined(kind) == [make |-> "PredefinedMenuItem", id |-> kind]

with_items(title) == [make |-> "with_items", id |-> title]

CreateMenuCalls ==
    << with_id(file_menu.NEW_PROJECT), with_id(file_menu.OPEN_PROJECT),
       with_id(file_menu.CLOSE_PROJECT), predefined("separator"),
       with_id(file_menu.IMPORT), with_id(file_menu.EXPORT),
       predefined("separator"), with_id(file_menu.SETTINGS),
       predefined("separator"), predefined("quit"), with_items("Archivo"),
       predefined("undo"), predefined("redo"), predefined("separator"),
       predefined("cut"), predefined("copy"), predefined("paste"),
       predefined("select_all"), predefined("separator"), with_id("find"),
       with_items("Edicion"),
       with_id(view_menu.CHAPTERS), with_id(view_menu.ENTITIES),
       with_id(view_menu.RELATIONSHIPS), with_id(view_menu.ALERTS),
       with_id(view_menu.TIMELINE), with_id(view_menu.STYLE),
       with_id(view_menu.GLOSSARY), with_id(view_menu.SUMMARY),
       predefined("separator"), with_id(view_menu.TOGGLE_SIDEBAR),
       with_id(view_menu.TOGGLE_INSPECTOR), predefined("separator"),
       predefined("fullscreen"), with_items("Ver"),
       with_id(analysis_menu.RUN), with_items("Analisis"),
       with_id(help_menu.TUTORIAL), with_id(help_menu.KEYBOARD_SHORTCUTS),
       with_id(help_menu.USER_GUIDE), predefined("separator"),
       with_id(help_menu.MANAGE_DATA), predefined("separator"),
       with_id(help_menu.CHECK_UPDATES), with_id(help_menu.ABOUT),
       with_items("Ayuda"), with_items("Menu") >>

\* The ids of the items built so far with MenuItem::with_id.
CustomIds == {menu.items[n] : n \in 1..Len(menu.items)}

CreateMenuInit ==
    /\ SupervisorOff
    /\ WfhOff
    /\ CleanupOff
    /\ tests = [seen |-> {}, i |-> 1, unique |-> "off", count |-> "off",
                j |-> 1, expected |-> "off"]
    /\ menu = [pc |-> "building", k |-> 1, items |-> <<>>, last |-> <<>>]

\* One constructor call of create_menu; each ends in `?`, so the first
\* failure is the result of create_menu.
create_menu ==
    /\ menu.pc = "building"
    /\ LET call == CreateMenuCalls[menu.k] IN
         \E ok \in BOOLEAN :
           menu' =
             IF ~ok
             THEN [menu EXCEPT !.pc = "failed"]
             ELSE [menu EXCEPT
                     !.items = IF call.make = "MenuItem::with_id"
                               THEN Append(@, call.id) ELSE @,
                     !.k = @ + 1,
                     !.pc = IF menu.k = Len(CreateMenuCalls)
                            THEN "built" ELSE "building"]
    /\ UNCHANGED <<supervisor, wfh, target_os, fs, del, tests>>

\* match app.get_webview_window("main")
\*   Some(window): window.emit("menu-event", id), on Err app.emit(..)
\*   None: app.emit("menu-event", id)
handle_menu_event ==
    /\ menu.pc = "built"
    /\ \E event_id \in CustomIds, window \in BOOLEAN,
          window_emit \in BOOLEAN, app_emit \in BOOLEAN :
         menu' = [menu EXCEPT
                    !.last = <<event_id,
                               IF window /\ window_emit THEN "window"
                               ELSE IF app_emit THEN "app" ELSE "none">>]
    /\ UNCHANGED <<supervisor, wfh, target_os, fs, del, tests>>

MenuNext ==
    \/ create_menu
    \/ handle_menu_event

SpecMenu == CreateMenuInit /\ [][MenuNext]_vars

\* ===================================================================== claims

\* C1: at most one backend process spawned by the supervisor is alive
\* (spawned and not yet killed-and-waited) at any time. The claim as stated;
\* two overlapping start_backend_server calls both pass the is_some() check
\* and both spawn.
C1_AtMostOneLive == Cardinality(live) <= 1

\* C2: while shutting_down is true, no step spawns a backend process or
\* stores a new handle in the child slot. The claim as stated;
\* start_backend_server never reads the flag and the watchdog reads it only
\* at the top of a wake.
C2_NoSpawnWhileShuttingDown ==
    [][shutting_down =>
         /\ spawned' = spawned
         /\ (child' = child \/ child' = None)]_vars

\* C3: once the close handler has set shutting_down and its blocking
\* stop_backend_server has returned, no spawned backend process is alive,
\* then or later. The claim as stated.
C3_NoProcessAfterClose == closed => live = {}

\* C4: when shutting_down is set after the watchdog detected the failure of
\* this wake and before its kill and spawn run, the watchdog does not
\* respawn. The claim as stated; the code has no second read of the flag.
C4_NoRespawnAfterLateShutdown ==
    [][(late_shutdown /\ wd_pc = "spawn") =>
         /\ wd_pc' # "store"
         /\ spawned' = spawned
         /\ cyc_spawns' = cyc_spawns]_vars

\* The watchdog's events, in emission order.
WdEvents == SelectSeq(events, LAMBDA e : e.by = "watchdog")

\* How many events of the watchdog have this status.
WdCount(status) == Len(SelectSeq(WdEvents, LAMBDA e : e.status = status))

\* How many events of the watchdog carry this message.
WdCountMsg(msg) == Len(SelectSeq(WdEvents, LAMBDA e : e.msg = msg))

\* C5: when a handle is tracked, start_backend_server returns "already
\* running" at once: no probe, no spawn, the child slot and everything else
\* shared left as they were.
C5_StartWhenTracked ==
    [][\A c \in {"setup", "ui"} :
         (pc[c] = "start_check" /\ pc'[c] # "start_check" /\ child # None) =>
            /\ ret'[c] = OkRunning
            /\ pc'[c] = AfterReturn(c)
            /\ probed'[c] = probed[c]
            /\ UNCHANGED <<shared, tmp, events>>]_vars

\* Two start calls one after the other, the first of which spawned: one
\* process in all, and the second returned "already running".
C5_Witness ==
    /\ ret["setup"] = OkStarted
    /\ ret["ui"] = OkRunning
    /\ pc["ui"] = "idle"
    /\ probed["ui"] = "none"
    /\ spawned = 1
    /\ child = 1

\* C6: when start_backend_server found no handle and its health probe
\* succeeds, it returns "already running externally", spawns nothing and
\* leaves the child slot as it is.
C6_StartWhenExternal ==
    [][\A c \in {"setup", "ui"} :
         (pc[c] = "start_probe" /\ probed'[c] = "ok") =>
            /\ ret'[c] = OkExternal
            /\ pc'[c] = AfterReturn(c)
            /\ UNCHANGED <<shared, tmp, events>>]_vars

C6_Witness ==
    /\ ret["setup"] = OkExternal
    /\ probed["setup"] = "ok"
    /\ pc["setup"] = "emit"
    /\ child = None
    /\ spawned = 0

\* Positions of the watchdog inside a restart cycle, and after giving up.
InRestart == {"restart", "kill", "killing", "reaping", "spawn", "store", "wait"}

\* C7 as stated: a run of three consecutive failed wake probes triggers
\* exactly one kill+respawn pair. (The wake of the third failure has ended
\* when the watchdog sleeps again or has given up.)
C7_OneKillRespawnPair ==
    (fail_run = MAX_FAILURES_BEFORE_RESTART /\ wd_pc \in {"sleep", "failed"}) =>
        (cyc_kills = 1 /\ cyc_spawns = 1)

\* C7, amended: the third of three consecutive failed wake probes starts
\* the restart handling and no shorter run does; with budget left that is
\* one restart cycle (one kill exactly when a process is tracked, one spawn
\* call), with the budget used it is the give-up without kill or spawn; a
\* successful wake probe resets consecutive_failures to 0.
C7_ThresholdRestart ==
    /\ [](/\ (fail_run = MAX_FAILURES_BEFORE_RESTART /\ wd_pc = "sleep") =>
               (cyc_spawns = 1 /\ cyc_kills <= 1)
          /\ (fail_run = MAX_FAILURES_BEFORE_RESTART /\ wd_pc = "failed") =>
               (cyc_spawns = 0 /\ cyc_kills = 0
                  /\ restart_count = MAX_RESTARTS)
          /\ fail_run < MAX_FAILURES_BEFORE_RESTART =>
               (cyc_spawns = 0 /\ cyc_kills = 0
                  /\ wd_pc \notin InRestart \cup {"failed"}))
    /\ [][(wd_pc = "probe" /\ wd_pc' # "probe") =>
            /\ fail_run' = 0 =>
                 (consecutive_failures' = 0 /\ wd_pc' = "sleep")
            /\ fail_run' = MAX_FAILURES_BEFORE_RESTART => wd_pc' = "restart"
            /\ wd_pc' = "restart" =>
                 fail_run' >= MAX_FAILURES_BEFORE_RESTART]_vars
    /\ [][(wd_pc = "restart" /\ wd_pc' # "restart") =>
            (wd_pc' = "kill") = (restart_count < MAX_RESTARTS)]_vars
    /\ [][(wd_pc = "kill" /\ wd_pc' # "kill") =>
            (wd_pc' = "killing") = (child # None)]_vars

\* Three failed wake probes in a row, then one kill and one spawn call.
C7_Witness ==
    /\ fail_run = MAX_FAILURES_BEFORE_RESTART
    /\ wd_pc = "sleep"
    /\ cyc_kills = 1
    /\ cyc_spawns = 1

\* C8 as stated: three restart attempts, none reaching Running, then the
\* terminal state with exactly one "error" event of the watchdog in all.
C8_ExactlyOneError ==
    (wd_pc = "failed" /\ WdCount("running") = 0) => WdCount("error") = 1

\* C8, amended: after the third restart attempt the watchdog still wakes
\* and probes; it is terminal only once it has emitted the give-up "error",
\* which it emits once and as its last event, and after which it takes no
\* step; its "error" events are that one and one per failed spawn.
C8_GiveUp ==
    /\ [](/\ wd_pc = "failed" =>
               /\ restart_count = MAX_RESTARTS
               /\ WdCountMsg("giving up") = 1
               /\ WdEvents[Len(WdEvents)].msg = "giving up"
               /\ WdCount("error") = 1 + WdCountMsg("spawn failed")
          /\ wd_pc # "failed" => WdCountMsg("giving up") = 0
          /\ WdCountMsg("spawn failed") <= MAX_RESTARTS)
    /\ [][wd_pc = "failed" => UNCHANGED <<wdv, events>>]_vars
    /\ [][(restart_count = MAX_RESTARTS /\ wd_pc = "sleep"
             /\ wd_pc' # "sleep" /\ ~shutting_down) => wd_pc' = "probe"]_vars

\* Given up after three attempts none of which reached Running, one of them
\* a failed spawn: two or more "error" events.
C8_Witness ==
    /\ wd_pc = "failed"
    /\ WdCount("running") = 0
    /\ WdCountMsg("spawn failed") >= 1
    /\ WdCount("error") >= 2

\* C9: from consecutive_failures = 0 and restart_count = 0, three failed
\* wake probes and then a respawn whose health wait succeeds leave
\* consecutive_failures = 0 and restart_count = 1, the watchdog having
\* emitted one "restarting" and then one "running" event and made one spawn
\* call.
C9_FirstRestartSucceeds ==
    [][(wd_pc = "wait" /\ restart_count = 0
          /\ fail_run = MAX_FAILURES_BEFORE_RESTART
          /\ wd_wait' = "healthy") =>
         /\ consecutive_failures' = 0
         /\ restart_count' = 1
         /\ cyc_spawns' = 1
         /\ wd_spawn_calls' = 1
         /\ WdEvents' = <<Event("watchdog", "restarting", "restarting"),
                          Event("watchdog", "running", "restarted")>>]_vars

C9_Witness ==
    /\ wd_pc = "sleep"
    /\ wd_wait = "healthy"
    /\ fail_run = MAX_FAILURES_BEFORE_RESTART
    /\ restart_count = 1
    /\ consecutive_failures = 0
    /\ WdCount("running") = 1
    /\ WdCount("restarting") = 1

\* C10: restart_count never exceeds MAX_RESTARTS, and the watchdog calls
\* spawn_embedded_backend at most MAX_RESTARTS times.
C10_RestartBudget ==
    /\ restart_count <= MAX_RESTARTS
    /\ wd_spawn_calls <= MAX_RESTARTS

C10_Witness ==
    /\ restart_count = MAX_RESTARTS
    /\ wd_spawn_calls = MAX_RESTARTS

\* C11 as stated: consecutive_failures is 0 right after any successful
\* health probe: a wake probe of the watchdog, the respawn's health wait,
\* a probe of check_backend_health or of start_backend_server.
C11_ResetOnAnyProbe ==
    [][/\ (wd_pc = "probe" /\ wd_pc' # "probe" /\ fail_run' = 0) =>
               consecutive_failures' = 0
       /\ (wd_pc = "wait" /\ wd_wait' = "healthy") =>
               consecutive_failures' = 0
       /\ (pc["ui"] = "health_probe" /\ ret'["ui"] = OkHealth(TRUE)) =>
               consecutive_failures' = 0
       /\ \A c \in {"setup", "ui"} :
            (pc[c] = "start_probe" /\ probed'[c] = "ok") =>
               consecutive_failures' = 0]_vars

\* C11, amended: consecutive_failures is 0 right after a successful wake
\* probe of the watchdog and after a respawn whose health wait succeeded;
\* it is a local of the watchdog, which no step of a command
\* (start_backend_server, stop_backend_server, check_backend_health)
\* changes, whatever its probe answered; it only goes to 0 or up by one.
C11_ResetOnWatchdogProbe ==
    [][/\ (wd_pc = "probe" /\ wd_pc' # "probe" /\ fail_run' = 0) =>
               consecutive_failures' = 0
       /\ (wd_pc = "wait" /\ wd_wait' = "healthy") =>
               consecutive_failures' = 0
       /\ pc' # pc => consecutive_failures' = consecutive_failures
       /\ consecutive_failures' # consecutive_failures =>
               /\ wd_pc \in {"probe", "wait"}
               /\ \/ consecutive_failures' = 0
                  \/ consecutive_failures' = consecutive_failures + 1]_vars

\* A restart attempt that did not reach Running left consecutive_failures
\* at 3 or more; a later wake probe succeeded and reset it.
C11_Witness ==
    /\ restart_count >= 1
    /\ WdCount("running") = 0
    /\ wd_pc = "sleep"
    /\ fail_run = 0
    /\ consecutive_failures = 0

\* Positions inside stop_backend_server.
StopPositions == {"stop_take", "stop_kill", "stop_wait"}

\* C12: stop_backend_server called with no tracked process returns
\* "was not running" and changes nothing (no kill, slot still empty,
\* shutting_down as it was); every stop leaves the slot empty when it
\* returns, so a stop that follows it is that same no-op.
C12_StopWhenNotTracked ==
    [][\A c \in {"ui", "close"} :
         /\ (pc[c] = "stop_take" /\ pc'[c] # "stop_take" /\ child = None) =>
               /\ ret'[c] = OkNotRunning
               /\ pc'[c] = "idle"
               /\ tmp'[c] = None
               /\ UNCHANGED <<shared, tmp, events, wdv>>
         /\ (pc[c] \in StopPositions /\ pc'[c] = "idle") =>
               (child' = None /\ lock' = "free")]_vars

\* A stop that killed the one process, then a second stop: a no-op.
C12_Witness ==
    /\ ret["ui"] = OkStopped
    /\ ret["close"] = OkNotRunning
    /\ closed
    /\ spawned = 1
    /\ child = None

\* C13: a stop whose kill succeeded holds the lock of the child slot from
\* the take to its return, so no other task sees the slot it emptied
\* before the process has been waited for: when the lock is released the
\* process has exited.
C13_WaitBeforeClear ==
    /\ [](\A c \in {"ui", "close"} :
            pc[c] \in {"stop_kill", "stop_wait"} =>
               (lock = c /\ child = None /\ tmp[c] \in live))
    /\ [][\A c \in {"ui", "close"} :
            /\ (pc[c] = "stop_wait" /\ pc'[c] # "stop_wait") =>
                  /\ tmp[c] \notin live'
                  /\ lock' = "free"
                  /\ ret'[c] = OkStopped
            /\ (lock = c /\ pc'[c] = pc[c]) =>
                  (UNCHANGED <<child, lock>> /\ tmp[c] \in live')]_vars

\* A stop that took the tracked process, killed it and waited for it.
C13_Witness ==
    /\ ret["ui"] = OkStopped
    /\ pc["ui"] = "idle"
    /\ lock = "free"
    /\ child = None
    /\ live = {}
    /\ spawned = 1
    /\ ~shutting_down

\* C14: when the kill fails inside stop_backend_server, stop returns the
\* failure string and the handle is not cleared: the process is still
\* tracked in the child slot. The claim as stated; the code has taken the
\* handle out of the slot before the kill and drops it on the error.
C14_KillFailureKeepsHandle ==
    [][\A c \in {"ui", "close"} :
         (pc[c] = "stop_kill" /\ ret'[c] = ErrKill) =>
            /\ pc'[c] = "idle"
            /\ child' = tmp[c]]_vars

\* C15: the close handler stores shutting_down = true before its
\* stop_backend_server runs (so before any kill of it), and the handler
\* returns only when that stop has returned.
C15_CloseBlocksOnStop ==
    /\ [](/\ pc["close"] # "idle" => (shutting_down /\ ~closed)
          /\ closed =>
               /\ shutting_down
               /\ pc["close"] = "idle"
               /\ ret["close"] \in {OkStopped, OkNotRunning, ErrKill})
    /\ [][/\ (pc["close"] = "idle" /\ pc'["close"] # "idle") =>
               (shutting_down' /\ pc'["close"] = "stop_take")
          /\ (~closed /\ closed') =>
               (pc["close"] \in StopPositions /\ pc'["close"] = "idle")
          /\ shutting_down => shutting_down']_vars

\* The handler's stop killed and reaped the tracked process, then the
\* handler returned.
C15_Witness ==
    /\ closed
    /\ shutting_down
    /\ ret["close"] = OkStopped
    /\ pc["close"] = "idle"

\* Processes the supervisor has spawned so far.
Spawned == 1..spawned

\* C16: every kill of the supervisor, in stop_backend_server or in the
\* watchdog's restart, targets a process the supervisor spawned: the child
\* slot only ever holds such a process, and a start that found an external
\* backend records no handle.
C16_KillsOnlyOwn ==
    /\ child \in Spawned \cup {None}
    /\ \A c \in {"ui", "close"} :
         pc[c] \in {"stop_kill", "stop_wait"} => tmp[c] \in Spawned
    /\ wd_pc \in {"killing", "reaping"} => wd_old \in Spawned
    /\ \A c \in {"setup", "ui"} :
         (probed[c] = "ok" /\ pc[c] = AfterReturn(c)) =>
            (ret[c] = OkExternal /\ tmp[c] = None)

\* The setup's start found an external backend; the watchdog later kills:
\* the process of its own earlier restart.
C16_Witness ==
    /\ ret["setup"] = OkExternal
    /\ wd_pc = "reaping"
    /\ cyc_kills = 1
    /\ wd_old \in Spawned

FirstSuccess(answers, n) ==
    IF \E i \in 1..n : answers[i]
    THEN CHOOSE i \in 1..n : answers[i] /\ \A j \in 1..(i - 1) : ~answers[j]
    ELSE 0

\* C18: wait_for_health(max_attempts, delay) returns true iff one of its at
\* most max_attempts probes succeeds: it stops at the first success, issues
\* exactly max_attempts probes and returns false when all fail, and with
\* max_attempts = 0 returns false without a probe. Its result is the one
\* the supervisor's steps take for the whole call.
C18_WaitForHealth ==
    /\ wfh.ret = "running" =>
         /\ wfh.probes = wfh.attempt - 1
         /\ wfh.probes <= wfh.max_attempts
         /\ \A i \in 1..wfh.probes : ~wfh.answers[i]
    /\ wfh.ret = "true" =>
         /\ FirstSuccess(wfh.answers, wfh.max_attempts) # 0
         /\ wfh.probes = FirstSuccess(wfh.answers, wfh.max_attempts)
    /\ wfh.ret = "false" =>
         /\ FirstSuccess(wfh.answers, wfh.max_attempts) = 0
         /\ wfh.probes = wfh.max_attempts
    /\ wfh.ret \in {"true", "false"} =>
         (wfh.ret = "true") = wait_for_health(wfh.max_attempts, wfh.answers)
    /\ (wfh.max_attempts = 0 /\ wfh.ret \in {"true", "false"}) =>
         (wfh.ret = "false" /\ wfh.probes = 0)

\* Returned true at the second of four attempts, the first having failed.
C18_Witness ==
    /\ wfh.ret = "true"
    /\ wfh.max_attempts = MaxAttempts
    /\ wfh.probes = 2
    /\ ~wfh.answers[1]

\* A path belongs to a category when it is the category's path as
\* get_data_categories gives it, or lies beneath it. The models directory
\* inside ~/.narrative_assistant belongs to "models", not to "user_data";
\* ~/.narrative_assistant itself, the parent of both, is counted with both.
Belongs(p, id, os) ==
    /\ id \in CategoryIds
    /\ \/ starts_with(p, CategoryPath(id, os))
       \/ id = "models" /\ p = na
    /\ id = "user_data" => ~starts_with(p, CategoryPath("models", os))

\* C19: delete_data_category removes nothing and returns an error for
\* "ollama", "huggingface" and any unknown id; only app_cache, user_data
\* and models remove anything, and only paths of their own category. The
\* claim as stated.
C19_DeletesOnlyOwnCategory ==
    [][/\ fs' \subseteq fs
       /\ (del.pc = "match"
             /\ del.id \notin {"app_cache", "user_data", "models"}) =>
            (fs' = fs /\ ~del'.ret.ok)
       /\ \A p \in fs \ fs' :
            /\ del.id \in {"app_cache", "user_data", "models"}
            /\ Belongs(p, del.id, target_os)]_vars

\* The ids of one menu, and how many entries of ALL_MENU_IDS are among them.
MenuIds(m) == {m[k] : k \in DOMAIN m}
EntriesOf(m) ==
    Cardinality({k \in 1..Len(ALL_MENU_IDS) :
                    ALL_MENU_IDS[k] \in MenuIds(m)})

\* C20: ALL_MENU_IDS has exactly 23 entries, 6 of the file menu, 10 of the
\* view menu, 1 of the analysis menu and 6 of the help menu, and no entry
\* occurs twice; the tests that assert the count and the uniqueness do not
\* fail. The claim as stated.
C20_MenuIdsCount ==
    /\ tests.unique # "failed"
    /\ tests.count # "failed"
    /\ \A a, b \in 1..Len(ALL_MENU_IDS) :
         a # b => ALL_MENU_IDS[a] # ALL_MENU_IDS[b]
    /\ Len(ALL_MENU_IDS) = EXPECTED_MENU_IDS
    /\ EntriesOf(file_menu) = 6
    /\ EntriesOf(view_menu) = 10
    /\ EntriesOf(analysis_menu) = 1
    /\ EntriesOf(help_menu) = 6

\* Where a caller awaits a health probe or runs a spawn.
CallerSuspended == {"start_probe", "start_spawn", "start_wait", "health_probe"}

\* Where the watchdog sleeps, awaits a health probe or runs a spawn.
WatchdogSuspended == {"init_sleep", "sleep", "probe", "spawn", "wait"}

\* C21: no task holds the child-slot lock at a suspension point: a caller
\* holds it only across the blocking kill() and wait() of its stop, the
\* watchdog only across the kill() and wait() of its restart, and a task that
\* awaits a probe, runs a spawn or sleeps does not hold it.
C21_NoLockAcrossAwait ==
    /\ \A c \in Callers :
         /\ lock = c => pc[c] \in {"stop_kill", "stop_wait"}
         /\ pc[c] \in CallerSuspended => lock # c
    /\ lock = "watchdog" => wd_pc \in {"killing", "reaping"}
    /\ wd_pc \in WatchdogSuspended => lock # "watchdog"

\* The watchdog holds the lock over its kill while a start awaits its probe.
C21_Witness ==
    /\ lock = "watchdog"
    /\ wd_pc = "reaping"
    /\ pc["ui"] = "start_probe"

\* C22: a wake that finds shutting_down set leaves the loop at once, whatever
\* consecutive_failures and restart_count are: it probes, kills and spawns
\* nothing and emits no event, and a watchdog that has left stays as it is.
C22_ExitOnShutdown ==
    [][ /\ (wd_pc = "sleep" /\ wd_pc' # "sleep" /\ shutting_down) =>
             /\ wd_pc' = "exited"
             /\ UNCHANGED <<shared, events, consecutive_failures,
                            restart_count, wd_spawn_calls, wd_old, wd_new>>
        /\ wd_pc = "exited" =>
             UNCHANGED <<wd_pc, events, consecutive_failures, restart_count,
                         wd_spawn_calls, wd_old, wd_new, cyc_kills,
                         cyc_spawns, fail_run>>
        /\ wd_pc' = "exited" => wd_pc \in {"sleep", "exited"}
      ]_vars

\* The watchdog left on shutdown although a restart was due.
C22_Witness ==
    /\ wd_pc = "exited"
    /\ consecutive_failures >= MAX_FAILURES_BEFORE_RESTART
    /\ restart_count = 1
    /\ cyc_kills = 0
    /\ cyc_spawns = 0

\* C24: restart_count counts the restart attempts: it goes up by one when a
\* spawn fails and by one when the health wait of a respawn ends, healthy or
\* exhausted, and nothing else changes it.
C24_RestartCountPerAttempt ==
    /\ [](restart_count =
            wd_spawn_calls - (IF wd_pc \in {"store", "wait"} THEN 1 ELSE 0))
    /\ [][ /\ restart_count' # restart_count =>
                /\ restart_count' = restart_count + 1
                /\ wd_pc \in {"spawn", "wait"}
                /\ wd_pc' = "sleep"
           /\ (wd_pc = "wait" /\ wd_pc' # "wait") =>
                restart_count' = restart_count + 1
           /\ (wd_pc = "spawn" /\ wd_pc' = "sleep") =>
                restart_count' = restart_count + 1
           /\ (wd_pc = "spawn" /\ wd_pc' = "store") =>
                restart_count' = restart_count
         ]_vars

\* Three attempts with the three outcomes: a failed spawn, a healthy respawn
\* and an exhausted health wait.
C24_Witness ==
    /\ restart_count = MAX_RESTARTS
    /\ WdCountMsg("spawn failed") = 1
    /\ WdCount("running") = 1
    /\ wd_wait = "exhausted"

\* C25: a start whose health wait is exhausted keeps the process it stored
\* and still returns success: the step changes nothing shared, the setup task
\* then emits "running" and starts the watchdog, no "error" event is emitted
\* and restart_count is 0.
C25_ExhaustedStartSucceeds ==
    /\ [](\A c \in {"setup", "ui"} :
            (probed[c] = "exhausted" /\ pc[c] = AfterReturn(c)) =>
               ret[c] = OkStarted)
    /\ []((probed["setup"] = "exhausted" /\ pc["setup"] \in {"emit", "done"}) =>
            /\ release
            /\ \A i \in 1..Len(events) :
                 events[i].by = "setup" => events[i].status = "running"
            /\ pc["setup"] = "emit" =>
                 (events = <<>> /\ restart_count = 0 /\ wd_pc = "off"))
    /\ [][ /\ \A c \in {"setup", "ui"} :
                (pc[c] = "start_wait" /\ probed'[c] = "exhausted") =>
                   /\ ret'[c] = OkStarted
                   /\ UNCHANGED <<shared, events, restart_count, wd_pc>>
           /\ (pc["setup"] = "emit" /\ pc'["setup"] = "done"
                 /\ probed["setup"] = "exhausted") =>
                   /\ events' = <<Event("setup", "running", OkStarted.msg)>>
                   /\ wd_pc' = "init_sleep"
                   /\ restart_count' = 0
                   /\ UNCHANGED shared
         ]_vars

\* The setup's start ran out of health attempts; its process is tracked and
\* alive, "running" is the only event and the watchdog has been started.
C25_Witness ==
    /\ probed["setup"] = "exhausted"
    /\ pc["setup"] = "done"
    /\ child = 1
    /\ live = {1}
    /\ events = <<Event("setup", "running", OkStarted.msg)>>
    /\ wd_pc = "init_sleep"
    /\ restart_count = 0

\* Where the watchdog is between its "restarting" event and the outcome of
\* the attempt.
AfterRestarting == {"kill", "killing", "reaping", "spawn", "store", "wait"}

\* The last event the watchdog has emitted.
LastWdEvent == WdEvents[Len(WdEvents)]

\* C26: events are emitted in the order of the transitions: every restart
\* attempt has exactly one "restarting" event, which is the watchdog's last
\* event while it kills the old process and spawns the new one; the
\* attempt's "running" or spawn-failure "error" comes right after it; events
\* are only ever appended; and the give-up "error" is the watchdog's last.
C26_EventOrder ==
    /\ [](wd_pc \in AfterRestarting =>
            /\ WdEvents # <<>>
            /\ LastWdEvent.status = "restarting")
    /\ [](WdCount("restarting") =
            wd_spawn_calls +
              (IF wd_pc \in {"kill", "killing", "reaping", "spawn"}
               THEN 1 ELSE 0))
    /\ [](wd_pc = "failed" =>
            /\ WdEvents # <<>>
            /\ LastWdEvent = Event("watchdog", "error", "giving up"))
    /\ [][ /\ events' # events =>
                \E e \in {events'[Len(events')]} : events' = Append(events, e)
           /\ (wd_pc \in {"spawn", "wait"} /\ events' # events) =>
                /\ LastWdEvent.status = "restarting"
                /\ events'[Len(events')] \in
                     {Event("watchdog", "running", "restarted"),
                      Event("watchdog", "error", "spawn failed")}
           /\ (wd_pc \in {"kill", "killing", "reaping", "store"}) =>
                events' = events
           /\ wd_pc = "failed" => events' = events
         ]_vars

\* The watchdog gave up after three announced attempts: a failed spawn, a
\* healthy respawn and an exhausted health wait.
C26_Witness ==
    /\ wd_pc = "failed"
    /\ WdCount("restarting") = MAX_RESTARTS
    /\ WdCount("running") = 1
    /\ WdCountMsg("spawn failed") = 1
    /\ WdCountMsg("giving up") = 1

\* The handles a task holds outside the slot: a fresh child about to be
\* stored, or a child taken out of the slot to be killed and reaped.
InHand == {tmp[c] : c \in Callers} \cup {wd_old, wd_new}

\* C27: no process spawned by the supervisor is orphaned: every live one is
\* referenced by the child slot, or is in the hand of the task that is
\* storing or stopping it.
C27_NoOrphan == \A p \in live : p = child \/ p \in InHand

\* C28: an attempt that does not reach Running (health wait exhausted, or
\* spawn failed) leaves consecutive_failures at its value of at least 3, and
\* a failed wake probe with the count at 3 or more goes straight to the
\* restart decision (the next attempt, or the give-up); a healthy respawn
\* sets the count to 0, and from 0 the third failed probe in a row is the
\* first that reaches the decision.
C28_FailedAttemptKeepsCount ==
    /\ [](wd_pc \in InRestart =>
            consecutive_failures >= MAX_FAILURES_BEFORE_RESTART)
    /\ []((wd_pc = "sleep" /\ wd_wait = "exhausted") =>
            consecutive_failures >= MAX_FAILURES_BEFORE_RESTART)
    /\ []((wd_pc = "sleep" /\ wd_wait = "healthy") =>
            consecutive_failures = 0)
    /\ [][ /\ (wd_pc \in {"spawn", "wait"} /\ wd_pc' = "sleep"
                 /\ wd_wait' # "healthy") =>
                /\ consecutive_failures' = consecutive_failures
                /\ consecutive_failures >= MAX_FAILURES_BEFORE_RESTART
           /\ (wd_pc = "wait" /\ wd_wait' = "healthy") =>
                consecutive_failures' = 0
           /\ (wd_pc = "probe" /\ wd_pc' # "probe" /\ fail_run' # 0
                 /\ consecutive_failures >= MAX_FAILURES_BEFORE_RESTART) =>
                wd_pc' = "restart"
           /\ (wd_pc = "probe" /\ wd_pc' # "probe" /\ fail_run' # 0
                 /\ consecutive_failures + 1 < MAX_FAILURES_BEFORE_RESTART) =>
                wd_pc' = "sleep"
           /\ (wd_pc = "probe" /\ wd_pc' = "restart") =>
                /\ fail_run' # 0
                /\ consecutive_failures' = consecutive_failures + 1
                /\ consecutive_failures' >= MAX_FAILURES_BEFORE_RESTART
         ]_vars

\* One failed probe after an attempt that did not reach Running: the count
\* went from 3 to 4 and the next restart is decided.
C28_Witness ==
    /\ wd_pc = "restart"
    /\ restart_count = 1
    /\ WdCount("running") = 0
    /\ consecutive_failures = MAX_FAILURES_BEFORE_RESTART + 1

\* The runtime keeps running the watchdog task and the stop calls: a sleep,
\* a probe, a kill() or a wait() returns, and a task that waits for the lock
\* gets it once the holder has released it.
FairSpec ==
    /\ Spec
    /\ WF_vars(backend_watchdog)
    /\ \A c \in {"ui", "close"} : WF_vars(stop_backend_server(c))

\* A health probe of the watchdog is answered: its wake probe, or the health
\* wait of a respawn.
WdProbeSucceeds ==
    \/ wd_pc = "probe" /\ wd_pc' = "sleep" /\ consecutive_failures' = 0
    \/ wd_pc = "wait" /\ wd_pc' = "sleep" /\ wd_wait' = "healthy"

\* C23: under fair scheduling a started watchdog ends once recovery is
\* impossible or shutdown is requested: if from some point on no probe of
\* the watchdog succeeds, or shutting_down is set, the loop is eventually
\* left, by the give-up or by the shutdown exit.
C23_WatchdogTerminates ==
    ((<>[][~WdProbeSucceeds]_vars) \/ <>shutting_down) =>
        ([](wd_pc = "off") \/ <>(wd_pc \in {"failed", "exited"}))

\* Every probe of the watchdog failed: six failed wake probes and three
\* attempts without a "running", then the give-up.
C23_Witness ==
    /\ wd_pc = "failed"
    /\ ~shutting_down
    /\ fail_run = MAX_FAILURES_BEFORE_RESTART + MAX_RESTARTS
    /\ WdCount("running") = 0

\* C29: ALL_MENU_IDS is exactly the set of ids of the custom items of the
\* menu: every item create_menu builds with MenuItem::with_id has its id in
\* ALL_MENU_IDS, and once the menu is built every id of ALL_MENU_IDS is the
\* id of one of its items.
C29_AllMenuIdsExact ==
    /\ CustomIds \subseteq MenuIds(ALL_MENU_IDS)
    /\ menu.pc = "built" => MenuIds(ALL_MENU_IDS) \subseteq CustomIds

\* C30: on every platform a successful delete_data_category of app_cache,
\* user_data or models removes the directory that get_data_categories
\* reports as the path of that category, so that get_data_categories then
\* reports size_bytes = 0 and exists = false for it.
C30_DeleteMatchesReport ==
    [][(del.pc = "match" /\ del'.pc = "idle" /\ del'.ret.ok
          /\ del.id \in {"app_cache", "user_data", "models"}) =>
         LET category == get_data_categories(fs', target_os)[del.id] IN
           /\ category.path \notin fs'
           /\ category.size_bytes = 0
           /\ ~category.exists]_vars

====
